---- MODULE Spec2Model ----
(***************************************************************************)
(* STOMP client of web/.aspen/stomp.py (class StompClient).                *)
(*                                                                         *)
(* A string is a sequence of one-character strings, the inbound side of    *)
(* the transport is the sequence of bytes the broker has delivered and the *)
(* client has not consumed yet.  One client task runs one call at a time;  *)
(* a call that reads from the transport is suspended at its read point    *)
(* (pc, rd) while the broker delivers bytes or a timer fires.             *)
(***************************************************************************)
EXTENDS Integers, Sequences, FiniteSets, TLC

VARIABLES
    inb,            \* bytes delivered by the broker, not yet consumed
    held,           \* rest of the frame the broker is in the middle of writing
    narr,           \* number of frames the broker has started to write
    nsplit,         \* number of frames that reached the client in two pieces
    closed,         \* diesel.Client.close was called
    msgs_received,  \* self.msgs_received
    connected,      \* self.connected
    session_id,     \* self.session_id: <<>> unset, <<s>> set to s
    timeout,        \* self.timeout, set by _read_frame
    pc,             \* the call in progress: "idle", "connect", "wait", "receive"
    rd,             \* the frame being decoded by _read_frame
    receipt,        \* token awaited by _wait_for_receipt: <<>> none, <<t>>
    used,           \* tokens uuid4 has produced
    ncalls,         \* number of calls made
    op,             \* name of the current (or last) call
    wrote,          \* frames handed to _write_frame by the current (or last) call
    ret,            \* outcome of the last call, "pending" while it runs
    val,            \* value returned by the last receive: <<>> None, <<f>>
    buf0,           \* msgs_received when the current call started
    conn0,          \* connected when the current call started
    sess0,          \* session_id when the current call started
    decoded,        \* frames _read_frame returned to the current call
    wire            \* bytes the transport held before the first call

vars == <<inb, held, narr, nsplit, closed, msgs_received, connected, session_id, timeout,
          pc, rd, receipt, used, ncalls, op, wrote, ret, val, buf0, conn0, sess0,
          decoded, wire>>

-----------------------------------------------------------------------------
(* Bounds of the model *)

MaxArrivals == 2    \* frames the broker writes
MaxSplits == 1      \* frames among them that reach the client in two pieces
MaxCalls == 2       \* calls the application makes

-----------------------------------------------------------------------------
(* Bytes and strings *)

NL == "\n"
CR == "\r"
NUL == "^@"         \* chr(0)

Whitespace == {" ", "\t", NL, CR}

RECURSIVE LStrip(_)
LStrip(s) ==
    IF s # <<>> /\ Head(s) \in Whitespace THEN LStrip(Tail(s)) ELSE s

RECURSIVE RStrip(_)
RStrip(s) ==
    IF s # <<>> /\ s[Len(s)] \in Whitespace
    THEN RStrip(SubSeq(s, 1, Len(s) - 1)) ELSE s

\* str.strip()
Strip(s) == LStrip(RStrip(s))

\* str.rstrip(c) for a one-character c
RECURSIVE RStripChar(_, _)
RStripChar(s, c) ==
    IF s # <<>> /\ s[Len(s)] = c
    THEN RStripChar(SubSeq(s, 1, Len(s) - 1), c) ELSE s

\* str.find(c): position of the first c counted from 1, 0 when there is none
Find(s, c) ==
    IF \E i \in 1..Len(s) : s[i] = c
    THEN CHOOSE i \in 1..Len(s) : s[i] = c /\ \A j \in 1..(i - 1) : s[j] # c
    ELSE 0

UpperCase == <<"A","B","C","D","E","F","G","H","I","J","K","L","M",
               "N","O","P","Q","R","S","T","U","V","W","X","Y","Z">>
LowerCase == <<"a","b","c","d","e","f","g","h","i","j","k","l","m",
               "n","o","p","q","r","s","t","u","v","w","x","y","z">>

LowerChar(c) ==
    IF \E i \in 1..Len(UpperCase) : UpperCase[i] = c
    THEN LowerCase[CHOOSE i \in 1..Len(UpperCase) : UpperCase[i] = c]
    ELSE c

\* str.lower()
Lower(s) == [i \in 1..Len(s) |-> LowerChar(s[i])]

Digits == <<"0","1","2","3","4","5","6","7","8","9">>

IsDigit(c) == \E i \in 1..Len(Digits) : Digits[i] = c

DigitVal(c) == (CHOOSE i \in 1..Len(Digits) : Digits[i] = c) - 1

RECURSIVE DigitsVal(_)
DigitsVal(s) ==
    IF s = <<>> THEN 0
    ELSE 10 * DigitsVal(SubSeq(s, 1, Len(s) - 1)) + DigitVal(s[Len(s)])

\* int(s) of a stripped string: [ok |-> FALSE] stands for ValueError
ParseInt(s) ==
    LET signed == s # <<>> /\ Head(s) \in {"-", "+"}
        ds == IF signed THEN Tail(s) ELSE s
    IN  IF ds # <<>> /\ \A i \in 1..Len(ds) : IsDigit(ds[i])
        THEN [ok |-> TRUE,
              n |-> IF signed /\ Head(s) = "-" THEN 0 - DigitsVal(ds) ELSE DigitsVal(ds)]
        ELSE [ok |-> FALSE, n |-> 0]

\* str(n) for a small natural number
RECURSIVE IntToStr(_)
IntToStr(n) ==
    IF n < 10 THEN <<Digits[n + 1]>>
    ELSE IntToStr(n \div 10) \o <<Digits[(n % 10) + 1]>>

-----------------------------------------------------------------------------
(* Header mappings (python dict) *)

EmptyHeaders == [k \in {} |-> <<>>]

HasKey(h, k) == k \in DOMAIN h

Put(h, k, v) == [x \in (DOMAIN h) \cup {k} |-> IF x = k THEN v ELSE h[x]]

\* StompFrame(command, headers, body)
StompFrame(command, headers, body) ==
    [command |-> command, headers |-> headers, body |-> body]

-----------------------------------------------------------------------------
(* _read_frame and _readline *)

\* the decode at its start: StompFrame(None, { }, None), content_length = 0
NewRead ==
    [phase |-> "command", command |-> <<>>, headers |-> EmptyHeaders,
     content_length |-> 0, body |-> <<>>]

\* diesel.until("\n") has a whole line to return
HasLine(s) == Find(s, NL) > 0

FirstLine(s) == SubSeq(s, 1, Find(s, NL))

AfterLine(s) == SubSeq(s, Find(s, NL) + 1, Len(s))

\* a header line whose key is compared with "content-length" as it is spelled
HeaderLineCaseSensitive(r, line) ==
    LET pos == Find(line, ":")
        key == Strip(SubSeq(line, 1, pos - 1))
        v == Strip(SubSeq(line, pos + 1, Len(line)))
        n == ParseInt(v)
    IN  IF pos = 0 THEN r
        ELSE IF key # <<"c","o","n","t","e","n","t","-","l","e","n","g","t","h">>
        THEN [r EXCEPT !.headers = Put(r.headers, key, v)]
        ELSE IF n.ok
        THEN [r EXCEPT !.headers = Put(r.headers, key, v), !.content_length = n.n]
        ELSE [r EXCEPT !.headers = Put(r.headers, key, v), !.phase = "ValueError"]

\* one header line: split at the first ":", both sides stripped; a line without
\* ":" is skipped; int() of a content-length value may raise ValueError
HeaderLine(r, line) ==
    LET pos == Find(line, ":")
        key == Strip(SubSeq(line, 1, pos - 1))
        v == Strip(SubSeq(line, pos + 1, Len(line)))
        n == ParseInt(v)
    IN  IF pos = 0 THEN r
        ELSE IF Lower(key) # <<"c","o","n","t","e","n","t","-","l","e","n","g","t","h">>
        THEN [r EXCEPT !.headers = Put(r.headers, key, v)]
        ELSE IF n.ok
        THEN [r EXCEPT !.headers = Put(r.headers, key, v), !.content_length = n.n]
        ELSE [r EXCEPT !.headers = Put(r.headers, key, v), !.phase = "ValueError"]

\* body of a frame without content-length, once the sentinel is seen
ScannedBody(body) == RStripChar(RStripChar(body, NL), CR)

\* the bytes after a content-length body are dropped one at a time, whatever
\* they are
PadEndsFirstByte(c) == TRUE

\* the bytes after a content-length body are dropped up to the sentinel
PadEnds(c) == c = NUL

\* a line read after the sentinel (the _readline the source leaves commented out)
AfterSentinelSkipLine(s) == IF HasLine(s) THEN AfterLine(s) ELSE s

\* _read_frame returns at the sentinel: the bytes after it are left in the
\* transport for the next decode
AfterSentinel(s) == s

\* _read_frame run on the bytes s as far as they reach; the result is the
\* decode's position r and the bytes left.  Phases: "command" and "header"
\* are suspended in _readline, "body", "pad" and "scan" in diesel.receive,
\* "done" has a frame to return, "ValueError" raised.
RECURSIVE ReadFrame(_, _)
ReadFrame(r, s) ==
    CASE r.phase = "command" ->
            IF HasLine(s)
            THEN ReadFrame([r EXCEPT !.command = Strip(FirstLine(s)), !.phase = "header"],
                           AfterLine(s))
            ELSE [rd |-> r, rest |-> s]
      [] r.phase = "header" ->
            IF ~HasLine(s) THEN [rd |-> r, rest |-> s]
            ELSE IF Strip(FirstLine(s)) # <<>>
            THEN ReadFrame(HeaderLine(r, FirstLine(s)), AfterLine(s))
            ELSE ReadFrame([r EXCEPT !.phase = IF r.content_length > 0 THEN "body" ELSE "scan"],
                           AfterLine(s))
      [] r.phase = "body" ->
            IF Len(s) >= r.content_length
            THEN ReadFrame([r EXCEPT !.body = SubSeq(s, 1, r.content_length), !.phase = "pad"],
                           SubSeq(s, r.content_length + 1, Len(s)))
            ELSE [rd |-> r, rest |-> s]
      [] r.phase = "pad" ->
            IF s = <<>> THEN [rd |-> r, rest |-> s]
            ELSE IF PadEnds(Head(s))
            THEN [rd |-> [r EXCEPT !.phase = "done"], rest |-> AfterSentinel(Tail(s))]
            ELSE ReadFrame(r, Tail(s))
      [] r.phase = "scan" ->
            IF s = <<>> THEN [rd |-> r, rest |-> s]
            ELSE IF Head(s) = NUL
            THEN [rd |-> [r EXCEPT !.body = ScannedBody(r.body), !.phase = "done"],
                  rest |-> AfterSentinel(Tail(s))]
            ELSE ReadFrame([r EXCEPT !.body = Append(r.body, Head(s))], Tail(s))
      [] OTHER -> [rd |-> r, rest |-> s]

\* the frame a finished decode returns
FrameOf(r) == StompFrame(r.command, r.headers, r.body)

-----------------------------------------------------------------------------
(* Names on the wire *)

CONNECT == <<"C","O","N","N","E","C","T">>
CONNECTED == <<"C","O","N","N","E","C","T","E","D">>
DISCONNECT == <<"D","I","S","C","O","N","N","E","C","T">>
SEND == <<"S","E","N","D">>
SUBSCRIBE == <<"S","U","B","S","C","R","I","B","E">>
UNSUBSCRIBE == <<"U","N","S","U","B","S","C","R","I","B","E">>
ACK == <<"A","C","K">>
RECEIPT == <<"R","E","C","E","I","P","T">>
MESSAGE == <<"M","E","S","S","A","G","E">>
ERROR == <<"E","R","R","O","R">>

KeySession == <<"s","e","s","s","i","o","n">>
KeyReceipt == <<"r","e","c","e","i","p","t">>
KeyReceiptId == <<"r","e","c","e","i","p","t","-","i","d">>
KeyDestination == <<"d","e","s","t","i","n","a","t","i","o","n">>
KeyAck == <<"a","c","k">>
KeyMessageId == <<"m","e","s","s","a","g","e","-","i","d">>
KeyContentLength == <<"c","o","n","t","e","n","t","-","l","e","n","g","t","h">>

-----------------------------------------------------------------------------
(* What the application and the broker may supply *)

\* values of uuid.uuid4().hex
Tokens == {<<"a">>, <<"b">>}

\* headers argument of a call: None, or a mapping that asks for a receipt
CallerHeaders == {EmptyHeaders, Put(EmptyHeaders, KeyReceipt, <<"x">>)}

\* headers argument of connect and disconnect: None
SessionHeaders == {EmptyHeaders}

Destinations == {<<"q">>}
Bodies == {<<"h","i">>}
MessageIds == {<<"m">>}
ReceiveTimeouts == {0 - 1, 0, 1}
TimedOrNot == {0 - 1, 1}

\* receipt-id values the broker answers with: it confirms one of the tokens
ReceiptIds == {<<"a">>}

\* a frame as the broker writes it: command line, header lines, blank line,
\* body, sentinel
Wire(command, headerLines, body) ==
    command \o <<NL>> \o headerLines \o <<NL>> \o body \o <<NUL>>

HeaderBytes(k, v) == k \o <<":">> \o v \o <<NL>>

BrokerFrames ==
    { Wire(CONNECTED, HeaderBytes(KeySession, <<"s","1">>), <<>>),
      Wire(CONNECTED, <<>>, <<>>),
      Wire(ERROR, <<>>, <<>>),
      Wire(MESSAGE, <<>>, <<"m", NL>>),
      Wire(RECEIPT, <<>>, <<>>) }
    \cup { Wire(RECEIPT, HeaderBytes(KeyReceiptId, t), <<>>) : t \in ReceiptIds }

\* a frame whose content-length is no number
MalformedFrames ==
    { Wire(MESSAGE, HeaderBytes(KeyContentLength, <<"x">>), <<>>) }

\* the broker's write may reach the client whole, or cut after any of its lines
SplitPoints(w) == {Len(w)} \cup {i \in 1..Len(w) : w[i] = NL}

-----------------------------------------------------------------------------
(* Pieces of the handlers *)

\* a frame that goes out as the caller gave it, no content-length set
WriteFrameNoLength(command, headers, body) == StompFrame(command, headers, body)

\* _write_frame: the frame as it goes out, content-length set when body is truthy
WriteFrame(command, headers, body) ==
    StompFrame(command,
               IF body # <<>> THEN Put(headers, KeyContentLength, IntToStr(Len(body)))
               ELSE headers,
               body)

\* a receipt header the mapping has is kept, a token is set when it has none
CreateReceiptKeep(headers, tok) ==
    IF HasKey(headers, KeyReceipt) THEN headers ELSE Put(headers, KeyReceipt, tok)

\* _create_receipt: a fresh token replaces the receipt header the mapping has
CreateReceipt(headers, tok) ==
    IF HasKey(headers, KeyReceipt) THEN Put(headers, KeyReceipt, tok) ELSE headers

\* _wait_for_receipt waits only when the mapping has a receipt header
AwaitsReceipt(headers) == HasKey(headers, KeyReceipt)

\* _wait_for_receipt on a decoded frame: "match" returns, "buffer" appends
\* the frame and goes on, "KeyError" is frame.headers['receipt-id'] failing
OnWaitFrame(frame, token) ==
    IF frame.command # RECEIPT THEN "buffer"
    ELSE IF ~HasKey(frame.headers, KeyReceiptId) THEN "KeyError"
    ELSE IF frame.headers[KeyReceiptId] = token THEN "match"
    ELSE "buffer"

\* the frame put in front of the list instead of at its end
BufferFrameInFront(buf, frame) == <<frame>> \o buf

\* self.msgs_received.append(frame)
BufferFrame(buf, frame) == Append(buf, frame)

\* connect marking the client connected before it looks at the reply's command
OnConnectReplyEager(f, conn, sess) ==
    IF f.command # CONNECTED
    THEN [ret |-> "IOError", connected |-> TRUE, session_id |-> sess]
    ELSE IF KeySession \notin DOMAIN f.headers
    THEN [ret |-> "KeyError", connected |-> TRUE, session_id |-> sess]
    ELSE [ret |-> "ok", connected |-> TRUE, session_id |-> <<f.headers[KeySession]>>]

\* connect on the reply frame f
OnConnectReply(f, conn, sess) ==
    IF f.command # CONNECTED
    THEN [ret |-> "IOError", connected |-> conn, session_id |-> sess]
    ELSE IF ~HasKey(f.headers, KeySession)
    THEN [ret |-> "KeyError", connected |-> conn, session_id |-> sess]
    ELSE [ret |-> "ok", connected |-> TRUE, session_id |-> <<f.headers[KeySession]>>]

\* the test of receive off by one: len(self.msgs_received) > 1
ReceiveFromBufferOffByOne(buf) == Len(buf) > 1

\* receive takes from self.msgs_received when it holds a frame
ReceiveFromBuffer(buf) == Len(buf) > 0

\* self.msgs_received.pop(0): the frame returned and the list left
PopFirst(buf) == [frame |-> Head(buf), rest |-> Tail(buf)]

\* what the transport has for a read
Avail == IF closed THEN <<>> ELSE inb

\* _readline is waiting for a line that is not there
LineBlocked == rd.phase \in {"command", "header"} /\ ~HasLine(Avail)

\* _readline arms TimeoutHandler only for self.timeout > 0
TimerArmed(t) == t > 0

Returned(r) == ret' = r /\ pc' = "idle"

\* a call starts: the task is idle and the transport has not been closed
\* (Disconnected after disconnect is terminal)
Begin(name) ==
    /\ pc = "idle"
    /\ ~closed
    /\ ncalls < MaxCalls
    /\ ncalls' = ncalls + 1
    /\ op' = name
    /\ buf0' = msgs_received
    /\ conn0' = connected
    /\ sess0' = session_id
    /\ decoded' = <<>>

-----------------------------------------------------------------------------
(* State machine *)

\* the client after __init__, before any call
Constructed ==
    /\ held = <<>>
    /\ narr = 0
    /\ nsplit = 0
    /\ closed = FALSE
    /\ msgs_received = <<>>
    /\ connected = FALSE
    /\ session_id = <<>>
    /\ timeout = 0 - 1
    /\ pc = "idle"
    /\ rd = NewRead
    /\ receipt = <<>>
    /\ used = {}
    /\ ncalls = 0
    /\ op = "none"
    /\ wrote = <<>>
    /\ ret = "none"
    /\ val = <<>>
    /\ buf0 = <<>>
    /\ conn0 = FALSE
    /\ sess0 = <<>>
    /\ decoded = <<>>

Init ==
    /\ inb = <<>>
    /\ wire = <<>>
    /\ Constructed

\* the broker writes a frame; the first i bytes reach the client at once
\* (frames written after the application's last call has returned are left out)
BrokerWrite(w, i) ==
    /\ ~closed
    /\ held = <<>>
    /\ narr < MaxArrivals
    /\ pc # "idle" \/ ncalls < MaxCalls
    /\ narr' = narr + 1
    /\ i < Len(w) => nsplit < MaxSplits
    /\ nsplit' = IF i < Len(w) THEN nsplit + 1 ELSE nsplit
    /\ inb' = inb \o SubSeq(w, 1, i)
    /\ held' = SubSeq(w, i + 1, Len(w))
    /\ UNCHANGED <<wire, closed, msgs_received, connected, session_id, timeout, pc, rd,
                   receipt, used, ncalls, op, wrote, ret, val, buf0, conn0, sess0,
                   decoded>>

\* the rest of the broker's frame reaches the client
BrokerFlush ==
    /\ ~closed
    /\ held # <<>>
    /\ inb' = inb \o held
    /\ held' = <<>>
    /\ UNCHANGED <<narr, wire, nsplit, closed, msgs_received, connected, session_id, timeout, pc, rd,
                   receipt, used, ncalls, op, wrote, ret, val, buf0, conn0, sess0,
                   decoded>>

\* connect up to its read of the reply
Connect(headers) ==
    /\ Begin("connect")
    /\ wrote' = <<WriteFrame(CONNECT, headers, <<>>)>>
    /\ timeout' = 100
    /\ rd' = NewRead
    /\ pc' = "connect"
    /\ ret' = "pending"
    /\ val' = <<>>
    /\ receipt' = <<>>
    /\ UNCHANGED <<inb, held, narr, wire, nsplit, closed, msgs_received, connected, session_id, used>>

\* disconnect without its last statement, self.connected = False
DisconnectKeepsFlag(headers) ==
    /\ Begin("disconnect")
    /\ wrote' = <<WriteFrame(DISCONNECT, headers, <<>>)>>
    /\ closed' = TRUE
    /\ Returned("ok")
    /\ val' = <<>>
    /\ receipt' = <<>>
    /\ UNCHANGED <<inb, held, narr, wire, nsplit, msgs_received, connected, session_id, timeout,
                   rd, used>>

Disconnect(headers) ==
    /\ Begin("disconnect")
    /\ wrote' = <<WriteFrame(DISCONNECT, headers, <<>>)>>
    /\ closed' = TRUE
    /\ connected' = FALSE
    /\ Returned("ok")
    /\ val' = <<>>
    /\ receipt' = <<>>
    /\ UNCHANGED <<inb, held, narr, wire, nsplit, msgs_received, session_id, timeout, rd, used>>

\* uuid.uuid4().hex, called only when the mapping has a receipt header (the
\* token is not used otherwise): a value not produced before
NewTokens(headers) ==
    IF HasKey(headers, KeyReceipt) THEN Tokens \ used ELSE {<<>>}

\* send, subscribe, unsubscribe and ack after they have set their own headers:
\* _create_receipt, _write_frame, and _wait_for_receipt up to its first read
Correlated(name, command, headers, body) ==
    /\ Begin(name)
    /\ val' = <<>>
    /\ rd' = NewRead
    /\ \E tok \in NewTokens(headers) :
         LET h == CreateReceipt(headers, tok) IN
         /\ used' = IF HasKey(headers, KeyReceipt) THEN used \cup {tok} ELSE used
         /\ wrote' = <<WriteFrame(command, h, body)>>
         /\ IF AwaitsReceipt(h)
            THEN /\ receipt' = <<h[KeyReceipt]>>
                 /\ timeout' = 1
                 /\ pc' = "wait"
                 /\ ret' = "pending"
            ELSE /\ receipt' = <<>>
                 /\ timeout' = timeout
                 /\ Returned("ok")
    /\ UNCHANGED <<inb, held, narr, wire, nsplit, closed, msgs_received, connected, session_id>>

Send(dest_name, body, headers) ==
    Correlated("send", SEND, Put(headers, KeyDestination, dest_name), body)

Subscribe(dest_name, auto_ack, headers) ==
    Correlated("subscribe", SUBSCRIBE,
               Put(Put(headers, KeyDestination, dest_name), KeyAck,
                   IF auto_ack THEN <<"a","u","t","o">> ELSE <<"c","l","i","e","n","t">>),
               <<>>)

Unsubscribe(dest_name, headers) ==
    Correlated("unsubscribe", UNSUBSCRIBE, Put(headers, KeyDestination, dest_name), <<>>)

Ack(msg_id, headers) ==
    Correlated("ack", ACK, Put(headers, KeyMessageId, msg_id), <<>>)

\* receive: the buffered frame, or up to the read of a fresh one
Receive(t) ==
    /\ Begin("receive")
    /\ wrote' = <<>>
    /\ receipt' = <<>>
    /\ IF ReceiveFromBuffer(msgs_received)
       THEN /\ val' = <<PopFirst(msgs_received).frame>>
            /\ msgs_received' = PopFirst(msgs_received).rest
            /\ Returned("ok")
            /\ UNCHANGED <<timeout, rd>>
       ELSE /\ val' = <<>>
            /\ timeout' = t
            /\ rd' = NewRead
            /\ pc' = "receive"
            /\ ret' = "pending"
            /\ UNCHANGED msgs_received
    /\ UNCHANGED <<inb, held, narr, wire, nsplit, closed, connected, session_id, used>>

\* the bytes at hand move the decode on; Consume(res) is the transport's side
Consume(res) ==
    /\ res.rest # Avail
    /\ inb' = res.rest

\* _read_frame goes on and is suspended again inside the same frame
ReadMore ==
    /\ pc # "idle"
    /\ LET res == ReadFrame(rd, Avail) IN
         /\ Consume(res)
         /\ res.rd.phase \notin {"done", "ValueError"}
         /\ rd' = res.rd
    /\ UNCHANGED <<held, narr, wire, nsplit, closed, msgs_received, connected, session_id, timeout, pc,
                   receipt, used, ncalls, op, wrote, ret, val, buf0, conn0, sess0, decoded>>

\* int(val) of a content-length header raises; no handler catches it
ReadValueError ==
    /\ pc # "idle"
    /\ LET res == ReadFrame(rd, Avail) IN
         /\ Consume(res)
         /\ res.rd.phase = "ValueError"
         /\ rd' = NewRead
    /\ Returned("ValueError")
    /\ UNCHANGED <<held, narr, wire, nsplit, closed, msgs_received, connected, session_id, timeout,
                   receipt, used, ncalls, op, wrote, val, buf0, conn0, sess0, decoded>>

\* connect gets its reply frame
ConnectReply ==
    /\ pc = "connect"
    /\ LET res == ReadFrame(rd, Avail)
           out == OnConnectReply(FrameOf(res.rd), connected, session_id)
       IN
         /\ Consume(res)
         /\ res.rd.phase = "done"
         /\ decoded' = Append(decoded, FrameOf(res.rd))
         /\ connected' = out.connected
         /\ session_id' = out.session_id
         /\ Returned(out.ret)
    /\ rd' = NewRead
    /\ UNCHANGED <<held, narr, wire, nsplit, closed, msgs_received, timeout, receipt, used, ncalls, op,
                   wrote, val, buf0, conn0, sess0>>

\* _wait_for_receipt gets a frame
WaitFrame ==
    /\ pc = "wait"
    /\ LET res == ReadFrame(rd, Avail)
           out == OnWaitFrame(FrameOf(res.rd), receipt[1])
       IN
         /\ Consume(res)
         /\ res.rd.phase = "done"
         /\ decoded' = Append(decoded, FrameOf(res.rd))
         /\ CASE out = "match" -> Returned("ok") /\ UNCHANGED msgs_received
              [] out = "KeyError" -> Returned("KeyError") /\ UNCHANGED msgs_received
              [] OTHER -> /\ msgs_received' = BufferFrame(msgs_received, FrameOf(res.rd))
                          /\ UNCHANGED <<pc, ret>>
    /\ rd' = NewRead
    /\ UNCHANGED <<held, narr, wire, nsplit, closed, connected, session_id, timeout, receipt, used,
                   ncalls, op, wrote, val, buf0, conn0, sess0>>

\* receive gets a fresh frame
ReceiveFrame ==
    /\ pc = "receive"
    /\ LET res == ReadFrame(rd, Avail) IN
         /\ Consume(res)
         /\ res.rd.phase = "done"
         /\ decoded' = Append(decoded, FrameOf(res.rd))
         /\ val' = <<FrameOf(res.rd)>>
    /\ Returned("ok")
    /\ rd' = NewRead
    /\ UNCHANGED <<held, narr, wire, nsplit, closed, msgs_received, connected, session_id, timeout,
                   receipt, used, ncalls, op, wrote, buf0, conn0, sess0>>

\* _readline of connect's _read_frame(100) times out
ConnectTimeout ==
    /\ pc = "connect"
    /\ TimerArmed(timeout)
    /\ LineBlocked
    /\ rd' = NewRead
    /\ Returned("StompTimeout")
    /\ UNCHANGED <<inb, held, narr, wire, nsplit, closed, msgs_received, connected, session_id, timeout,
                   receipt, used, ncalls, op, wrote, val, buf0, conn0, sess0, decoded>>

\* _readline of _wait_for_receipt's _read_frame(1) times out: except ... pass
WaitReadTimeout ==
    /\ pc = "wait"
    /\ TimerArmed(timeout)
    /\ LineBlocked
    /\ rd' = NewRead
    /\ UNCHANGED <<inb, held, narr, wire, nsplit, closed, msgs_received, connected, session_id, timeout,
                   pc, receipt, used, ncalls, op, wrote, ret, val, buf0, conn0, sess0,
                   decoded>>

\* a receipt wait that gives up and marks the client disconnected
WaitExpireDisconnects ==
    /\ pc = "wait"
    /\ rd = NewRead
    /\ Returned("StompTimeout")
    /\ connected' = FALSE
    /\ UNCHANGED <<inb, held, narr, wire, nsplit, closed, msgs_received, session_id, timeout,
                   rd, receipt, used, ncalls, op, wrote, val, buf0, conn0, sess0, decoded>>

\* the while loop of _wait_for_receipt finds its 60 seconds over
WaitExpire ==
    /\ pc = "wait"
    /\ rd = NewRead
    /\ Returned("StompTimeout")
    /\ UNCHANGED <<inb, held, narr, wire, nsplit, closed, msgs_received, connected, session_id, timeout,
                   rd, receipt, used, ncalls, op, wrote, val, buf0, conn0, sess0, decoded>>

\* receive without its try ... except: the StompTimeout reaches the caller
ReceiveTimeoutRaises ==
    /\ pc = "receive"
    /\ TimerArmed(timeout)
    /\ LineBlocked
    /\ rd' = NewRead
    /\ val' = <<>>
    /\ Returned("StompTimeout")
    /\ UNCHANGED <<inb, held, narr, wire, nsplit, closed, msgs_received, connected, session_id,
                   timeout, receipt, used, ncalls, op, wrote, buf0, conn0, sess0, decoded>>

\* _readline of receive's _read_frame(timeout) times out: except ... return None
ReceiveTimeout ==
    /\ pc = "receive"
    /\ TimerArmed(timeout)
    /\ LineBlocked
    /\ rd' = NewRead
    /\ val' = <<>>
    /\ Returned("ok")
    /\ UNCHANGED <<inb, held, narr, wire, nsplit, closed, msgs_received, connected, session_id, timeout,
                   receipt, used, ncalls, op, wrote, buf0, conn0, sess0, decoded>>

Next ==
    \/ \E w \in BrokerFrames \cup MalformedFrames : \E i \in SplitPoints(w) : BrokerWrite(w, i)
    \/ BrokerFlush
    \/ \E h \in SessionHeaders : Connect(h)
    \/ \E h \in SessionHeaders : Disconnect(h)
    \/ \E d \in Destinations, b \in Bodies, h \in CallerHeaders : Send(d, b, h)
    \/ \E d \in Destinations, a \in BOOLEAN, h \in CallerHeaders : Subscribe(d, a, h)
    \/ \E d \in Destinations, h \in CallerHeaders : Unsubscribe(d, h)
    \/ \E m \in MessageIds, h \in CallerHeaders : Ack(m, h)
    \/ \E t \in ReceiveTimeouts : Receive(t)
    \/ ReadMore
    \/ ReadValueError
    \/ ConnectReply
    \/ WaitFrame
    \/ ReceiveFrame
    \/ ConnectTimeout
    \/ WaitReadTimeout
    \/ WaitExpire
    \/ ReceiveTimeout

Spec == Init /\ [][Next]_vars

\* the same client with send as the one correlated call (subscribe, unsubscribe
\* and ack differ from it in the frame they write and in nothing else), receive
\* with and without a timer, and a broker whose frames are well-formed
NextSend ==
    \/ \E w \in BrokerFrames : \E i \in SplitPoints(w) : BrokerWrite(w, i)
    \/ BrokerFlush
    \/ \E h \in SessionHeaders : Connect(h)
    \/ \E h \in SessionHeaders : Disconnect(h)
    \/ \E d \in Destinations, b \in Bodies, h \in CallerHeaders : Send(d, b, h)
    \/ \E t \in TimedOrNot : Receive(t)
    \/ ReadMore
    \/ ConnectReply
    \/ WaitFrame
    \/ ReceiveFrame
    \/ ConnectTimeout
    \/ WaitReadTimeout
    \/ WaitExpire
    \/ ReceiveTimeout

SpecSend == Init /\ [][NextSend]_vars

-----------------------------------------------------------------------------
(* The decoder on a stream that is already in the transport *)

\* header blocks of the first frame: none, a content-length of 3 spelled in
\* lower and in mixed case, a content-length of 0, one that is no number
HeaderBlocks ==
    { <<>>,
      HeaderBytes(KeyContentLength, <<"3">>),
      <<"C","o","n","t","e","n","t","-","L","e","n","g","t","h",":"," ","3",NL>>,
      HeaderBytes(KeyContentLength, <<"0">>),
      HeaderBytes(KeyContentLength, <<"x">>) }

\* bytes between the blank line and the padding
RawBodies ==
    { <<>>,
      <<"h","e","l","l","o">>,
      <<"a",NUL,NL>>,
      <<"x",CR,NL,CR,NL>> }

Paddings == { <<>>, <<NL>> }

NextFrame == Wire(MESSAGE, <<>>, <<"m">>)

\* what follows the first frame: nothing, a whole frame, the start of one
Followers == { <<>>, NextFrame, <<"M">> }

DecodeStreams ==
    { Wire(MESSAGE, h, b \o p) \o f :
        h \in HeaderBlocks, b \in RawBodies, p \in Paddings, f \in Followers }

InitDecode ==
    /\ wire \in DecodeStreams
    /\ inb = wire
    /\ Constructed

NextDecode ==
    \/ \E t \in TimedOrNot : Receive(t)
    \/ ReadMore
    \/ ReadValueError
    \/ ReceiveFrame
    \/ ReceiveTimeout

SpecDecode == InitDecode /\ [][NextDecode]_vars

-----------------------------------------------------------------------------
(* Every operation, with a broker that accepts the session and confirms *)

SessionFrames ==
    { Wire(CONNECTED, HeaderBytes(KeySession, <<"s","1">>), <<>>) }
    \cup { Wire(RECEIPT, HeaderBytes(KeyReceiptId, tok), <<>>) : tok \in ReceiptIds }

NextOps ==
    \/ \E w \in SessionFrames : \E i \in SplitPoints(w) : BrokerWrite(w, i)
    \/ BrokerFlush
    \/ \E h \in SessionHeaders : Connect(h)
    \/ \E h \in SessionHeaders : Disconnect(h)
    \/ \E d \in Destinations, b \in Bodies, h \in CallerHeaders : Send(d, b, h)
    \/ \E d \in Destinations, a \in BOOLEAN, h \in CallerHeaders : Subscribe(d, a, h)
    \/ \E d \in Destinations, h \in CallerHeaders : Unsubscribe(d, h)
    \/ \E m \in MessageIds, h \in CallerHeaders : Ack(m, h)
    \/ \E t \in TimedOrNot : Receive(t)
    \/ ReadMore
    \/ ConnectReply
    \/ WaitFrame
    \/ ReceiveFrame
    \/ ConnectTimeout
    \/ WaitReadTimeout
    \/ WaitExpire
    \/ ReceiveTimeout

SpecOps == Init /\ [][NextOps]_vars

-----------------------------------------------------------------------------
(* Correlated calls one after the other, the caller's mapping passed again *)

\* the mapping of an earlier call, passed again: _create_receipt left that
\* call's token in it
ReusedHeaders == {Put(EmptyHeaders, KeyReceipt, tok) : tok \in used}

\* the broker confirms receipts and sends a message
ReceiptFrames ==
    { Wire(RECEIPT, HeaderBytes(KeyReceiptId, tok), <<>>) : tok \in ReceiptIds }
    \cup { Wire(MESSAGE, <<>>, <<"m">>) }

NextTokens ==
    \/ \E w \in ReceiptFrames : \E i \in SplitPoints(w) : BrokerWrite(w, i)
    \/ BrokerFlush
    \/ \E d \in Destinations, b \in Bodies, h \in CallerHeaders \cup ReusedHeaders : Send(d, b, h)
    \/ ReadMore
    \/ WaitFrame
    \/ WaitReadTimeout
    \/ WaitExpire

SpecTokens == Init /\ [][NextTokens]_vars

-----------------------------------------------------------------------------
(* The encoder, and the decoder on what it wrote *)

\* headers.items() yields the keys in an order the dict chooses
Orders(S) ==
    {o \in [1..Cardinality(S) -> S] : \A i, j \in 1..Cardinality(S) : o[i] = o[j] => i = j}

\* the header lines of _write_frame: k + ": " + str(v) + "\n" for each item
RECURSIVE HeaderLines(_, _)
HeaderLines(headers, order) ==
    IF order = <<>> THEN <<>>
    ELSE Head(order) \o <<":", " ">> \o headers[Head(order)] \o <<NL>>
            \o HeaderLines(headers, Tail(order))

\* bytes with the body sent ahead of the line that ends the headers
EncodeBodyFirst(f, order) ==
    f.command \o <<NL>> \o HeaderLines(f.headers, order) \o f.body \o <<NL>> \o <<NUL>>

\* the bytes _write_frame sends for the frame f: command line, header lines,
\* empty line, body, chr(0)
Encode(f, order) ==
    f.command \o <<NL>> \o HeaderLines(f.headers, order) \o <<NL>> \o f.body \o <<NUL>>

LoopCommands == { SEND, <<"A", " ">> }

LoopHeaders ==
    { EmptyHeaders,
      Put(EmptyHeaders, <<"k">>, <<"v">>),
      Put(EmptyHeaders, <<"k">>, <<" ", "v">>),
      Put(EmptyHeaders, <<"k", " ">>, <<"v">>),
      Put(Put(EmptyHeaders, <<"k">>, <<"v">>), <<"j">>, <<>>),
      Put(EmptyHeaders, KeyContentLength, <<"5">>),
      Put(EmptyHeaders, <<"C","o","n","t","e","n","t","-","L","e","n","g","t","h">>, <<"1">>) }

LoopBodies == { <<>>, <<"h", "i">>, <<"a", NL>> }

\* _write_frame(command, headers, body) on a transport that hands the bytes
\* written back to the client, followed by _read_frame(); wrote keeps the frame
\* as the caller handed it over
Loopback(command, headers, body) ==
    /\ Begin("loopback")
    /\ inb = <<>>
    /\ wrote' = <<StompFrame(command, headers, body)>>
    /\ LET f == WriteFrame(command, headers, body) IN
         \E o \in Orders(DOMAIN f.headers) : inb' = Encode(f, o)
    /\ val' = <<>>
    /\ receipt' = <<>>
    /\ timeout' = 0 - 1
    /\ rd' = NewRead
    /\ pc' = "receive"
    /\ ret' = "pending"
    /\ UNCHANGED <<held, narr, wire, nsplit, closed, msgs_received, connected, session_id, used>>

NextLoop ==
    \/ \E c \in LoopCommands, h \in LoopHeaders, b \in LoopBodies : Loopback(c, h, b)
    \/ ReadMore
    \/ ReceiveFrame

SpecLoop == Init /\ [][NextLoop]_vars

-----------------------------------------------------------------------------
(* Properties *)

CorrelatedOps == {"send", "subscribe", "unsubscribe", "ack"}

\* the frame is the receipt for token: a RECEIPT whose receipt-id is the token
IsReceiptFor(f, token) ==
    /\ f.command = RECEIPT
    /\ KeyReceiptId \in DOMAIN f.headers
    /\ f.headers[KeyReceiptId] = token

\* the frames of fs that are not the receipt for token, in their order
RECURSIVE OtherFrames(_, _)
OtherFrames(fs, token) ==
    IF fs = <<>> THEN <<>>
    ELSE IF IsReceiptFor(Head(fs), token) THEN OtherFrames(Tail(fs), token)
    ELSE <<Head(fs)>> \o OtherFrames(Tail(fs), token)

\* the current (or last) call is a correlated call that awaits a token
Awaiting == op \in CorrelatedOps /\ receipt # <<>>

\* C1: a correlated call that awaits token T and whose wait does not run into
\* its overall timeout returns successfully, and the frames that arrived before
\* the receipt for T are then in the buffer behind the frames buffered earlier,
\* in arrival order (so that the next receive calls return them in that order).
C1_ReceiptAfterOtherFrames ==
    (Awaiting /\ pc = "idle" /\ ret # "StompTimeout")
        => /\ ret = "ok"
           /\ msgs_received = buf0 \o OtherFrames(decoded, receipt[1])

\* C2: during a correlated wait every decoded frame that is not the matching
\* receipt is appended to the buffer and the wait goes on: none is dropped,
\* none makes the call return, none makes it fail.
C2_OtherFramesBuffered ==
    Awaiting
        => /\ msgs_received = buf0 \o OtherFrames(decoded, receipt[1])
           /\ ret \in {"pending", "ok", "StompTimeout"}
           /\ ret = "ok" => decoded # <<>> /\ IsReceiptFor(decoded[Len(decoded)], receipt[1])

\* C3: receive called with a non-empty buffer returns its oldest frame, removes
\* exactly that frame and takes nothing from the transport; receive reads the
\* transport, and returns a frame read from it, only with the buffer empty.
C3_ReceiveBufferFirst ==
    [][ /\ (pc = "idle" /\ op' = "receive" /\ ncalls' = ncalls + 1 /\ msgs_received # <<>>)
            => /\ val' = <<Head(msgs_received)>>
               /\ msgs_received' = Tail(msgs_received)
               /\ inb' = inb
               /\ pc' = "idle"
               /\ ret' = "ok"
        /\ (pc' = "receive" \/ (pc = "receive" /\ inb' # inb))
            => msgs_received = <<>> /\ msgs_received' = <<>>
      ]_vars

\* receive has returned the buffered frame while the transport holds a whole
\* frame, which it left alone
C3_Witness ==
    /\ pc = "idle" /\ op = "receive" /\ ret = "ok"
    /\ buf0 # <<>>
    /\ val = <<Head(buf0)>>
    /\ msgs_received = Tail(buf0)
    /\ decoded = <<>>
    /\ ReadFrame(NewRead, inb).rd.phase = "done"

\* C4: every send, subscribe, unsubscribe or ack writes its frame with a receipt
\* header and returns successfully only after the RECEIPT for that token has
\* been decoded.
C4_ReturnsOnlyAfterReceipt ==
    (op \in CorrelatedOps /\ pc = "idle" /\ ret = "ok")
        => /\ KeyReceipt \in DOMAIN wrote[1].headers
           /\ decoded # <<>>
           /\ IsReceiptFor(decoded[Len(decoded)], wrote[1].headers[KeyReceipt])

\* C5: a correlated call that runs into its overall timeout fails with
\* StompTimeout and leaves connected and session_id as they were; the buffer is
\* then what it was before the call followed by the frames decoded during the
\* wait, in arrival order, none of them the awaited receipt.
C5_TimeoutKeepsState ==
    /\ (Awaiting /\ pc = "idle" /\ ret = "StompTimeout")
        => /\ connected = conn0
           /\ session_id = sess0
           /\ msgs_received = buf0 \o decoded
           /\ \A i \in 1..Len(decoded) : ~IsReceiptFor(decoded[i], receipt[1])
    /\ (Awaiting /\ pc = "idle"
            /\ \A i \in 1..Len(decoded) :
                  /\ ~IsReceiptFor(decoded[i], receipt[1])
                  /\ decoded[i].command = RECEIPT => KeyReceiptId \in DOMAIN decoded[i].headers)
        => ret = "StompTimeout"

\* a correlated call has timed out with frames buffered before it and frames
\* decoded during it
C5_Witness ==
    /\ Awaiting /\ pc = "idle" /\ ret = "StompTimeout"
    /\ buf0 # <<>>
    /\ decoded # <<>>
    /\ msgs_received = buf0 \o decoded

C7_ConnectFailureStaysDisconnected ==
    (op = "connect" /\ ncalls = 1 /\ pc = "idle"
        /\ (decoded = <<>> \/ decoded[1].command # CONNECTED))
        => /\ ret = (IF decoded = <<>> THEN "StompTimeout" ELSE "IOError")
           /\ connected = FALSE
           /\ session_id = <<>>

\* the first connect of a client has failed on an ERROR reply
C7_Witness ==
    /\ op = "connect" /\ ncalls = 1 /\ pc = "idle" /\ ret = "IOError"
    /\ Len(decoded) = 1 /\ decoded[1].command = ERROR
    /\ ~connected /\ session_id = <<>>

\* C8: disconnect, whatever the client's state, writes a DISCONNECT frame, closes
\* the transport, leaves connected false and returns in the same step: it takes
\* no byte from the transport and waits for none.
C8_DisconnectUnconditional ==
    [][ (op' = "disconnect" /\ ncalls' = ncalls + 1)
            => /\ Len(wrote') = 1 /\ wrote'[1].command = DISCONNECT
               /\ closed' = TRUE
               /\ connected' = FALSE
               /\ pc' = "idle" /\ ret' = "ok"
               /\ inb' = inb /\ decoded' = <<>>
               /\ msgs_received' = msgs_received
      ]_vars

\* disconnect has returned on a client that was connected, with bytes of the
\* broker left unread
C8_Witness ==
    /\ op = "disconnect" /\ pc = "idle" /\ ret = "ok"
    /\ conn0 = TRUE /\ ~connected /\ closed
    /\ inb # <<>>

\* C9: a session id is present only while the client is connected.
C9_SessionOnlyWhileConnected == session_id # <<>> => connected

\* C10: receive never fails with StompTimeout; when the buffer is empty and the
\* read times out it returns None and leaves the buffer, connected and
\* session_id as they were.
C10_ReceiveReturnsNone ==
    /\ op = "receive" => ret # "StompTimeout"
    /\ (op = "receive" /\ pc = "idle" /\ buf0 = <<>> /\ decoded = <<>>)
        => /\ ret = "ok" /\ val = <<>>
           /\ msgs_received = buf0
           /\ connected = conn0
           /\ session_id = sess0

\* receive has timed out and returned None after a correlated call that awaited
\* a token on a transport that delivered nothing, and so timed out itself
C10_Witness ==
    /\ op = "receive" /\ pc = "idle" /\ ret = "ok" /\ val = <<>>
    /\ buf0 = <<>> /\ decoded = <<>>
    /\ timeout > 0
    /\ used # {} /\ narr = 0

\* C11: receive called with a timeout >= 0 on a client whose buffer is empty
\* and whose transport has delivered nothing can time out (and so return None):
\* its read of the command line has a timer.
C11_NonNegativeTimeoutEnds ==
    (pc = "receive" /\ timeout >= 0 /\ rd = NewRead /\ Avail = <<>>)
        => ENABLED ReceiveTimeout

\* the set of frames the broker writes, each as _read_frame returns it when it
\* is decoded from its first byte to its sentinel
BrokerFramesDecoded == {FrameOf(ReadFrame(NewRead, w).rd) : w \in BrokerFrames}

\* C15: a decode started with a positive timeout can always end: wherever it
\* waits for bytes that do not come (command line, header line, body byte,
\* bytes up to the sentinel) the timeout is ready to fire.
C15_EveryReadPointTimesOut ==
    (pc # "idle" /\ timeout > 0 /\ ReadFrame(rd, Avail).rest = Avail)
        => ENABLED (ConnectTimeout \/ WaitReadTimeout \/ ReceiveTimeout)

\* C16: whatever read timeouts occur, every frame decoded (returned by receive
\* or appended to the buffer) is one of the frames the broker wrote, whole.
C16_OnlyBrokerFrames ==
    /\ \A i \in 1..Len(msgs_received) : msgs_received[i] \in BrokerFramesDecoded
    /\ \A i \in 1..Len(decoded) : decoded[i] \in BrokerFramesDecoded
    /\ \A i \in 1..Len(val) : val[i] \in BrokerFramesDecoded

\* positions in a stream, counted on the bytes as the broker wrote them
NewLines(s) == {i \in 1..Len(s) : s[i] = NL}

LineStart(s, i) ==
    IF \E p \in NewLines(s) : p < i
    THEN 1 + CHOOSE p \in NewLines(s) : p < i /\ \A q \in NewLines(s) : q < i => q <= p
    ELSE 1

\* ends of the lines after the first that are empty
BlankLines(s) ==
    {i \in NewLines(s) : LineStart(s, i) > 1 /\ Strip(SubSeq(s, LineStart(s, i), i)) = <<>>}

\* first byte after the blank line that ends the headers
BodyStart(s) == 1 + CHOOSE i \in BlankLines(s) : \A j \in BlankLines(s) : i <= j

\* first sentinel at or after position k
SentinelFrom(s, k) ==
    CHOOSE i \in k..Len(s) : s[i] = NUL /\ \A j \in k..Len(s) : s[j] = NUL => i <= j

\* the content-length values among a frame's headers, whatever the case of the name
ContentLengths(f) ==
    {ParseInt(f.headers[k]).n : k \in {x \in DOMAIN f.headers : Lower(x) = KeyContentLength}}

\* the first receive on the stream has returned a frame
FirstDecoded == op = "receive" /\ ncalls = 1 /\ ret = "ok" /\ val # <<>>

\* C12: a frame whose headers have content-length N > 0 (the name in any case)
\* is returned with a body of exactly the N bytes after the blank line, as
\* they are, sentinel bytes and newlines among them included.
C12_ContentLengthBody ==
    FirstDecoded =>
        \A n \in ContentLengths(val[1]) :
            n > 0 => /\ BodyStart(wire) + n - 1 <= Len(wire)
                     /\ val[1].body = SubSeq(wire, BodyStart(wire), BodyStart(wire) + n - 1)

C12_Witness ==
    /\ FirstDecoded
    /\ \E k \in DOMAIN val[1].headers : k # KeyContentLength /\ Lower(k) = KeyContentLength
    /\ val[1].body = <<"a", NUL, NL>>

\* a sequence with its whole trailing run of newlines and carriage returns removed
RECURSIVE StripNewlines(_)
StripNewlines(s) ==
    IF s # <<>> /\ s[Len(s)] \in {NL, CR} THEN StripNewlines(SubSeq(s, 1, Len(s) - 1)) ELSE s

\* C13: a frame without content-length, or with content-length 0, is returned
\* with the bytes between the blank line and the first sentinel as its body,
\* less the whole trailing run of newlines and carriage returns: the body
\* never ends in either.
C13_ScannedBodyStripped ==
    (FirstDecoded /\ \A n \in ContentLengths(val[1]) : n = 0) =>
        LET raw == SubSeq(wire, BodyStart(wire), SentinelFrom(wire, BodyStart(wire)) - 1)
        IN  /\ val[1].body = StripNewlines(raw)
            /\ val[1].body = <<>> \/ val[1].body[Len(val[1].body)] \notin {NL, CR}

\* streams whose first frame has a content-length of 3, a body of at least 3
\* bytes and, when followed, a whole frame after its sentinel
PaddedStreams ==
    { Wire(MESSAGE, h, b \o p) \o f :
        h \in {x \in HeaderBlocks : Len(x) > 0 /\ x[Len(x) - 1] = "3"},
        b \in {x \in RawBodies : Len(x) >= 3}, p \in Paddings, f \in {<<>>, NextFrame} }

\* C19: after a content-length body the decode drops the bytes up to the first
\* sentinel and consumes no more: the transport is left at the byte after that
\* sentinel, and the frame that follows is returned by the next decode as the
\* broker wrote it.
C19_PaddingDiscarded ==
    /\ FirstDecoded =>
         \A n \in ContentLengths(val[1]) :
            n > 0 => inb = SubSeq(wire, SentinelFrom(wire, BodyStart(wire) + n) + 1, Len(wire))
    /\ (wire \in PaddedStreams /\ op = "receive" /\ ncalls = 2 /\ ret = "ok" /\ val # <<>>)
         => val[1] = StompFrame(MESSAGE, EmptyHeaders, <<"m">>)

C19_Witness ==
    /\ wire = Wire(MESSAGE, HeaderBytes(KeyContentLength, <<"3">>), <<"h","e","l","l","o",NL>>)
                \o NextFrame
    /\ op = "receive" /\ ncalls = 2 /\ ret = "ok"
    /\ val = <<StompFrame(MESSAGE, EmptyHeaders, <<"m">>)>>
    /\ inb = <<>>

\* the frame f with content-length added or corrected when it has a body
WithLength(f) ==
    IF f.body # <<>>
    THEN [f EXCEPT !.headers = Put(f.headers, KeyContentLength, IntToStr(Len(f.body)))]
    ELSE f

NoDelimiter(s) == \A i \in 1..Len(s) : s[i] \notin {":", NL}

\* frames the round trip is stated for: no ":" or newline in a header key or
\* value, no sentinel in the body
RoundTripFrame(f) ==
    /\ \A k \in DOMAIN f.headers : NoDelimiter(k) /\ NoDelimiter(f.headers[k])
    /\ \A i \in 1..Len(f.body) : f.body[i] # NUL

\* frames that are written as they are read: command, keys and values have no
\* white space at either end, and a content-length header is there only as the
\* one _write_frame sets for the body
PlainFrame(f) ==
    /\ f.command = Strip(f.command)
    /\ NoDelimiter(f.command)
    /\ \A k \in DOMAIN f.headers :
        /\ k = Strip(k)
        /\ f.headers[k] = Strip(f.headers[k])
        /\ Lower(k) = KeyContentLength => k = KeyContentLength /\ f.body # <<>>

\* the decode of the bytes written has gone as far as the bytes reach
LoopRead == op = "loopback" /\ ReadFrame(rd, inb).rest = inb

\* the frame was read back as written and the transport is empty
ReadBack == ret = "ok" /\ val = <<WithLength(wrote[1])>> /\ inb = <<>>

\* C14 as stated: every frame whose header keys and values hold no ":" or
\* newline and whose body holds no sentinel decodes from its encoding with the
\* same command, headers (content-length added or corrected when there is a
\* body) and body, the encoded bytes consumed exactly.
C14_RoundTripAsStated == (LoopRead /\ RoundTripFrame(wrote[1])) => ReadBack

\* C14: a frame whose header keys and values hold no ":" or newline, whose
\* body holds no sentinel, whose command, keys and values have no white space
\* at either end, and which has no content-length header other than the one
\* written for its body, decodes from its encoding with the same command,
\* headers (content-length added or corrected) and body, the encoded bytes
\* consumed exactly.
C14_RoundTrip == (LoopRead /\ RoundTripFrame(wrote[1]) /\ PlainFrame(wrote[1])) => ReadBack

C14_Witness ==
    /\ LoopRead /\ ReadBack
    /\ wrote[1].body = <<"a", NL>>
    /\ DOMAIN wrote[1].headers = {<<"k">>, <<"j">>}

\* the bytes of the frame just written are in the transport, none read yet
LoopWritten == op = "loopback" /\ ret = "pending" /\ rd = NewRead /\ inb # <<>>

\* the lines of the header block of the bytes s written for a command
WrittenHeaderLines(s, command) ==
    LET from == Len(command) + 2
        to == BodyStart(s) - 2
    IN  {SubSeq(s, LineStart(s, i), i) : i \in {j \in NewLines(s) : from <= j /\ j <= to}}

\* C18: a frame with a non-empty body is written with a content-length line
\* that gives the length of the body, whether or not the caller set one; the
\* bytes are the command line, one line per header, the empty line, the body
\* and one sentinel, in that order; a frame without body gets no
\* content-length line the caller did not set.
C18_WrittenBytes ==
    LoopWritten =>
        LET f == wrote[1]
            h == WithLength(f).headers
        IN  /\ SubSeq(inb, 1, Len(f.command) + 1) = f.command \o <<NL>>
            /\ WrittenHeaderLines(inb, f.command)
                 = {k \o <<":", " ">> \o h[k] \o <<NL>> : k \in DOMAIN h}
            /\ BodyStart(inb) - 1 - (Len(f.command) + 1)
                 = Len(HeaderLines(h, CHOOSE o \in Orders(DOMAIN h) : TRUE)) + 1
            /\ SubSeq(inb, BodyStart(inb), Len(inb)) = f.body \o <<NUL>>

C18_Witness ==
    /\ LoopWritten
    /\ wrote[1].body = <<"h", "i">>
    /\ DOMAIN wrote[1].headers = {<<"k">>}
    /\ inb = SEND \o <<NL>> \o KeyContentLength \o <<":", " ", "2", NL>>
               \o <<"k", ":", " ", "v", NL, NL, "h", "i", NUL>>

\* C17: the token a correlated call waits for is produced during that call, is
\* the receipt header of the frame it writes whatever value the caller's
\* mapping held, and is none of the tokens of earlier calls, matched or timed
\* out, also when the mapping of an earlier call is passed again.
C17_FreshToken ==
    [][(pc = "idle" /\ pc' = "wait") =>
          /\ receipt'[1] \in used' \ used
          /\ wrote'[1].headers[KeyReceipt] = receipt'[1]]_vars

C17_Witness ==
    /\ ncalls = 2 /\ pc = "wait"
    /\ receipt = <<"b">>
    /\ used = {<<"a">>, <<"b">>}
    /\ wrote[1].headers[KeyReceipt] = <<"b">>

\* C20: during and after every call of send, subscribe, unsubscribe, ack and
\* receive, however it ends, the connected flag and the session id are what
\* they were when the call started; each of the four writes its frame whatever
\* the flag is.
C20_OnlyConnectAndDisconnectChangeSession ==
    /\ op \in CorrelatedOps \cup {"receive"} => connected = conn0 /\ session_id = sess0
    /\ op \in CorrelatedOps => Len(wrote) = 1

C20_Witness ==
    /\ op = "subscribe" /\ ret = "StompTimeout"
    /\ connected /\ session_id = <<<<"s","1">>>>
    /\ Len(wrote) = 1

====
